---- MODULE Spec2Model ----
(***************************************************************************)
(* Poll / vote server actions of alx-polly (src/lib/actions.ts) running    *)
(* against the relational store declared in database-schema.sql            *)
(* (src/unnamed/part_011): tables, foreign keys with ON DELETE CASCADE,    *)
(* the UNIQUE(poll_id, user_id) constraint, the row level security         *)
(* policies and the update_vote_count trigger.                             *)
(*                                                                         *)
(* Every server action is a request handler.  A handler runs from one      *)
(* store request to the next atomically; the store executes each request   *)
(* as one statement.  The calls to the identity provider (getSession,      *)
(* getUser) and the validators do not touch the tables and are folded      *)
(* into the step that issues the handler's first store request.            *)
(* The server client is built with the anon key and the caller's cookies   *)
(* (src/lib/supabase.ts:12-61), so every statement runs under row level    *)
(* security with auth.uid() = the caller.                                  *)
(***************************************************************************)
EXTENDS Integers, Sequences, FiniteSets, Bags, TLC

\* ------------------------------------------------------------------ bounds
MaxPolls == 2          \* poll rows ever inserted
MaxOptionRows == 4     \* poll_options rows ever inserted
MaxLen == 2            \* longest option list of a payload
MaxRowOptions == 2     \* longest embedded option list of a row given to the mapper
MaxVotes == 2          \* largest vote counter of such a row
MaxClicks == 2         \* clicks on Vote buttons of a mounted polls list
FnMaxLen == 3          \* longest option list given to a validator on its own
MaxFormOptions == 4    \* most options the create-poll form is grown to

Users == {"u1", "u2"}
Procs == {1, 2}        \* concurrently running request handlers
NoUser == "none"       \* user: null
NoId == 0              \* the empty string used as an id

\* Strings are sequences of characters so that trim() can be computed.
Texts == { <<>>, <<" ">>, <<"a">>, <<"b">>, <<"a", " ">> }
UpdateTexts == { <<" ">>, <<"c">> }

\* ------------------------------------------------------------ error texts
ErrUnauth == "User not authenticated"
ErrQuestion == "Question is required"
ErrTwoOptions == "At least two options are required"
ErrOneOption == "At least one option is required"
ErrEmptyText == "Option text cannot be empty"
ErrUnique == "Option texts must be unique"
ErrCreatePoll == "Failed to create poll"
ErrCreateOptions == "Failed to create poll options"
ErrPollNotFound == "Poll not found"
ErrNotAuthDelete == "Not authorized to delete this poll"
ErrNotAuthUpdate == "Not authorized to update this poll"
ErrDeleteOptions == "Failed to delete poll options"
ErrDeletePoll == "Failed to delete poll"
ErrUpdatePoll == "Failed to update poll"
ErrUpdateOption == "Failed to update poll option"
ErrAddOption == "Failed to add poll option"
ErrRequired == "Poll and option are required"
ErrOptionNotFound == "Option not found"
ErrOptionMismatch == "Option does not belong to poll"
ErrSubmitVote == "Failed to submit vote"
ErrClient == "createServerClient failed"   \* message of a thrown Error

\* ---------------------------------------------------------------- strings
IsSpace(c) == c = " "

RECURSIVE TrimStart(_)
TrimStart(s) ==
  IF Len(s) > 0 /\ IsSpace(Head(s)) THEN TrimStart(Tail(s)) ELSE s

RECURSIVE TrimEnd(_)
TrimEnd(s) ==
  IF Len(s) > 0 /\ IsSpace(s[Len(s)]) THEN TrimEnd(SubSeq(s, 1, Len(s) - 1)) ELSE s

Trim(s) == TrimEnd(TrimStart(s))

SeqsUpTo(S, n) == UNION { [1..k -> S] : k \in 0..n }

Range(s) == { s[k] : k \in 1..Len(s) }

\* -------------------------------------------------------------- variables
VARIABLES
  polls,          \* polls table: id -> [question, description, user_id, created_at]
  poll_options,   \* poll_options table: id -> [poll_id, text, votes]
  votes,          \* votes table: bag of [poll_id, option_id, user_id]
  nextPollId,     \* next poll id the store generates (ids are never reused)
  nextOptionId,   \* next option id the store generates
  pc,             \* per handler: the store request it is about to issue
  loc,            \* per handler: arguments and locals of the running call
  ret,            \* per handler: the value the call returned
  calls,          \* per handler: store requests and revalidatePath calls issued
  ui              \* client components: the state of the mounted polls list

db == <<polls, poll_options, votes, nextPollId, nextOptionId>>
vars == <<polls, poll_options, votes, nextPollId, nextOptionId, pc, loc, ret, calls, ui>>

\* ------------------------------------------------------------------- auth
\* What the identity provider answers to getSession() and getUser(), and
\* whether building the client throws.
Envs ==
  { e \in [throws : BOOLEAN, sessionError : BOOLEAN, session : BOOLEAN,
           userError : BOOLEAN, user : Users \cup {NoUser}] :
      \* a healthy session of each user, or exactly one defect
      \/ ~e.throws /\ ~e.sessionError /\ e.session /\ ~e.userError /\ e.user \in Users
      \/ e.throws /\ ~e.sessionError /\ e.session /\ ~e.userError /\ e.user = "u1"
      \/ ~e.throws /\ e.sessionError /\ e.session /\ ~e.userError /\ e.user = "u1"
      \/ ~e.throws /\ ~e.sessionError /\ ~e.session /\ ~e.userError /\ e.user \in {"u1", NoUser}
      \/ ~e.throws /\ ~e.sessionError /\ e.session /\ e.userError /\ e.user = "u1"
      \/ ~e.throws /\ ~e.sessionError /\ e.session /\ ~e.userError /\ e.user = NoUser }

ActionError(msg) == [kind |-> "action", success |-> FALSE, error |-> msg, pollId |-> NoId, polls |-> <<>>]
ActionSuccess(pid) == [kind |-> "action", success |-> TRUE, error |-> "", pollId |-> pid, polls |-> <<>>]
PollList(ps) == [kind |-> "list", success |-> TRUE, error |-> "", pollId |-> NoId, polls |-> ps]
Thrown(msg) == [kind |-> "thrown", success |-> FALSE, error |-> msg, pollId |-> NoId, polls |-> <<>>]
NoResult == [kind |-> "none", success |-> FALSE, error |-> "", pollId |-> NoId, polls |-> <<>>]

\* the guard without its getUser() half
getAuthenticatedUserId_SessionOnly(e) ==
  IF e.sessionError \/ ~e.session THEN [success |-> FALSE, error |-> ErrUnauth, userId |-> NoUser]
  ELSE [success |-> TRUE, error |-> "", userId |-> e.user]

getAuthenticatedUserId(e) ==
  IF e.sessionError \/ ~e.session THEN [success |-> FALSE, error |-> ErrUnauth, userId |-> NoUser]
  ELSE IF e.userError \/ e.user = NoUser THEN [success |-> FALSE, error |-> ErrUnauth, userId |-> NoUser]
  ELSE [success |-> TRUE, error |-> "", userId |-> e.user]

\* auth.uid() of the statements a handler sends: the user of the session
\* cookie, NULL without one.
AuthUid(e) == IF e.session /\ ~e.sessionError /\ ~e.userError THEN e.user ELSE NoUser

\* ------------------------------------------------------------- validation
OptionTexts(data) == [k \in 1..Len(data.options) |-> Trim(data.options[k].text)]

\* the validator without its uniqueness check
validateCreatePollInput_NoUnique(data) ==
  IF Len(Trim(data.question)) = 0 THEN ErrQuestion
  ELSE IF Len(data.options) < 2 THEN ErrTwoOptions
  ELSE IF \E k \in 1..Len(data.options) : Len(OptionTexts(data)[k]) = 0 THEN ErrEmptyText
  ELSE ""

\* the validator with `data.options.length <= 2`
validateCreatePollInput_MinThree(data) ==
  IF Len(Trim(data.question)) = 0 THEN ErrQuestion
  ELSE IF Len(data.options) <= 2 THEN ErrTwoOptions
  ELSE IF \E k \in 1..Len(data.options) : Len(OptionTexts(data)[k]) = 0 THEN ErrEmptyText
  ELSE IF Cardinality(Range(OptionTexts(data))) # Len(data.options) THEN ErrUnique
  ELSE ""

\* the validator testing uniqueness before emptiness
validateCreatePollInput_UniqueFirst(data) ==
  IF Len(Trim(data.question)) = 0 THEN ErrQuestion
  ELSE IF Len(data.options) < 2 THEN ErrTwoOptions
  ELSE IF Cardinality(Range(OptionTexts(data))) # Len(data.options) THEN ErrUnique
  ELSE IF \E k \in 1..Len(data.options) : Len(OptionTexts(data)[k]) = 0 THEN ErrEmptyText
  ELSE ""

validateCreatePollInput(data) ==
  IF Len(Trim(data.question)) = 0 THEN ErrQuestion
  ELSE IF Len(data.options) < 2 THEN ErrTwoOptions
  ELSE IF \E k \in 1..Len(data.options) : Len(OptionTexts(data)[k]) = 0 THEN ErrEmptyText
  ELSE IF Cardinality(Range(OptionTexts(data))) # Len(data.options) THEN ErrUnique
  ELSE ""

\* updatePoll validated with the rules of createPoll
validateUpdatePollInput_AsCreate(data) ==
  IF Len(Trim(data.question)) = 0 THEN ErrQuestion
  ELSE IF Len(data.options) < 2 THEN ErrTwoOptions
  ELSE IF \E k \in 1..Len(data.options) : Len(OptionTexts(data)[k]) = 0 THEN ErrEmptyText
  ELSE IF Cardinality(Range(OptionTexts(data))) # Len(data.options) THEN ErrUnique
  ELSE ""

validateUpdatePollInput(data) ==
  IF Len(Trim(data.question)) = 0 THEN ErrQuestion
  ELSE IF Len(data.options) = 0 THEN ErrOneOption
  ELSE IF \E k \in 1..Len(data.options) : Len(OptionTexts(data)[k]) = 0 THEN ErrEmptyText
  ELSE ""

\* `data.description || null`: the stored column is NULL ({}) or a non-empty text
DescriptionOrNull(d) == IF Len(d) = 0 THEN {} ELSE {d}

\* ---------------------------------------------------------- the poll view
RECURSIVE SortedIds(_)
\* ascending sequence of a finite set of ids
SortedIds(S) ==
  IF S = {} THEN <<>>
  ELSE LET m == CHOOSE x \in S : \A y \in S : x <= y
       IN  <<m>> \o SortedIds(S \ {m})

OptionsOf(pid) == { o \in DOMAIN poll_options : poll_options[o].poll_id = pid }

\* the embedded resource poll_options(id, text, votes) of one poll row
EmbeddedOptions(pid) ==
  LET ids == SortedIds(OptionsOf(pid))
  IN  [k \in 1..Len(ids) |->
         [id |-> ids[k], text |-> poll_options[ids[k]].text, votes |-> poll_options[ids[k]].votes]]

PollRow(pid) ==
  [id |-> pid, question |-> polls[pid].question, description |-> polls[pid].description,
   user_id |-> polls[pid].user_id, created_at |-> polls[pid].created_at,
   poll_options |-> EmbeddedOptions(pid)]

RECURSIVE SumVotes(_)
SumVotes(options) ==
  IF Len(options) = 0 THEN 0 ELSE Head(options).votes + SumVotes(Tail(options))

\* mapPollRowToPoll with totalVotes taken from the number of options
mapPollRowToPoll_CountsOptions(row) ==
  LET options == IF "poll_options" \in DOMAIN row THEN row.poll_options ELSE <<>>
  IN  [id |-> row.id, question |-> row.question, description |-> row.description,
       user_id |-> row.user_id, created_at |-> row.created_at,
       options |-> [k \in 1..Len(options) |->
                      [id |-> options[k].id, text |-> options[k].text, votes |-> options[k].votes]],
       totalVotes |-> Len(options)]

\* `row.poll_options || []`: a row may come without the embedded list
mapPollRowToPoll(row) ==
  LET options == IF "poll_options" \in DOMAIN row THEN row.poll_options ELSE <<>>
  IN  [id |-> row.id, question |-> row.question, description |-> row.description,
       user_id |-> row.user_id, created_at |-> row.created_at,
       options |-> [k \in 1..Len(options) |->
                      [id |-> options[k].id, text |-> options[k].text, votes |-> options[k].votes]],
       totalVotes |-> SumVotes(options)]

RECURSIVE NewestFirst(_)
\* .order("created_at", { ascending: false })
NewestFirst(S) ==
  IF S = {} THEN <<>>
  ELSE LET m == CHOOSE x \in S : \A y \in S : polls[x].created_at >= polls[y].created_at
       IN  <<m>> \o NewestFirst(S \ {m})

SelectPolls(S) ==
  LET ids == NewestFirst(S)
  IN  [k \in 1..Len(ids) |-> mapPollRowToPoll(PollRow(ids[k]))]

\* what getPolls / getUserPolls return when the select succeeds
GetPollsResult == SelectPolls(DOMAIN polls)
\* getUserPolls without .eq("user_id", auth.userId)
GetUserPollsResult_Unfiltered(u) == SelectPolls(DOMAIN polls)

GetUserPollsResult(u) == SelectPolls({ id \in DOMAIN polls : polls[id].user_id = u })

\* ------------------------------------------------------------------ store
\* Row level security (ENABLE ROW LEVEL SECURITY on the three tables): a
\* statement touches only the rows its command's policy admits; a command
\* without a policy admits no row.  uid is auth.uid().
\* A comparison with a NULL auth.uid() is not true.
PollsInsertPolicy(uid, row) == uid # NoUser /\ uid = row.user_id
PollsUpdatePolicy(uid, id) == uid # NoUser /\ uid = polls[id].user_id
PollsDeletePolicy(uid, id) == uid # NoUser /\ uid = polls[id].user_id

\* EXISTS (SELECT 1 FROM polls WHERE id = poll_id AND user_id = auth.uid())
OwnsPollOf(uid, pid) ==
  uid # NoUser /\ \E id \in DOMAIN polls : id = pid /\ polls[id].user_id = uid
OptionsInsertPolicy(uid, row) == OwnsPollOf(uid, row.poll_id)
OptionsUpdatePolicy(uid, o) == OwnsPollOf(uid, poll_options[o].poll_id)
OptionsDeletePolicy(uid, o) == FALSE      \* poll_options has no DELETE policy
VotesDeletePolicy(uid, v) == FALSE        \* votes has no DELETE policy

\* auth.uid() = user_id AND NOT EXISTS (SELECT 1 FROM votes
\*   WHERE poll_id = votes.poll_id AND user_id = auth.uid())
\* Inside the subquery both poll_id and votes.poll_id name the subquery's own
\* row, so the comparison is of a row with itself.
VotesInsertPolicy(uid, row) ==
  /\ uid # NoUser /\ uid = row.user_id
  /\ ~ \E v \in BagToSet(votes) : v.poll_id = v.poll_id /\ v.user_id = uid

\* UNIQUE(poll_id, user_id)
VotesUnique(row) ==
  ~ \E v \in BagToSet(votes) : v.poll_id = row.poll_id /\ v.user_id = row.user_id

\* REFERENCES polls(id), REFERENCES poll_options(id)
VotesForeignKeys(row) == row.poll_id \in DOMAIN polls /\ row.option_id \in DOMAIN poll_options

\* the insert check of a schema without UNIQUE(poll_id, user_id) and without the
\* NOT EXISTS clause of the insert policy
VotesInsertAllowed_NoUniqueness(uid, row) ==
  uid # NoUser /\ uid = row.user_id /\ VotesForeignKeys(row)

\* the insert check of a votes table without row level security and without
\* the unique constraint
VotesInsertAllowed_ForeignKeysOnly(uid, row) == VotesForeignKeys(row)

VotesInsertAllowed(uid, row) ==
  VotesInsertPolicy(uid, row) /\ VotesUnique(row) /\ VotesForeignKeys(row)

\* update_vote_count, TG_OP = 'INSERT'.  The function is not SECURITY
\* DEFINER: its UPDATE runs as the voter, under the poll_options UPDATE policy.
VoteCountAfterInsert(uid, row) ==
  [o \in DOMAIN poll_options |->
     IF o = row.option_id /\ OptionsUpdatePolicy(uid, o)
     THEN [poll_options[o] EXCEPT !.votes = @ + 1]
     ELSE poll_options[o]]

\* poll_id UUID REFERENCES polls(id) ON DELETE CASCADE (poll_options)
\* poll_options.poll_id declared without ON DELETE CASCADE semantics
CascadeOptions_None(D) == {}

CascadeOptions(D) == { o \in DOMAIN poll_options : poll_options[o].poll_id \in D }

\* poll_id ... ON DELETE CASCADE, option_id ... ON DELETE CASCADE (votes)
CascadeVotes(D, O) == { v \in BagToSet(votes) : v.poll_id \in D \/ v.option_id \in O }

\* DELETE FROM polls WHERE id = pid, with its cascades and the DELETE branch
\* of update_vote_count for every vote row the cascade removes.
DeletePollStatement(uid, pid) ==
  LET D == { id \in DOMAIN polls : id = pid /\ PollsDeletePolicy(uid, id) }
      O == CascadeOptions(D)
      V == CascadeVotes(D, O)
      lost(o) == IF OptionsUpdatePolicy(uid, o)
                 THEN LET vs == { v \in V : v.option_id = o }
                      IN  IF vs = {} THEN 0 ELSE BagCardinality([v \in vs |-> votes[v]])
                 ELSE 0
  IN  [polls |-> [id \in DOMAIN polls \ D |-> polls[id]],
       poll_options |-> [o \in DOMAIN poll_options \ O |->
                           [poll_options[o] EXCEPT !.votes = @ - lost(o)]],
       votes |-> [v \in BagToSet(votes) \ V |-> votes[v]]]

\* DELETE FROM poll_options WHERE poll_id = pid
DeleteOptionsStatement(uid, pid) ==
  LET O == { o \in OptionsOf(pid) : OptionsDeletePolicy(uid, o) }
      V == CascadeVotes({}, O)
  IN  [polls |-> polls,
       poll_options |-> [o \in DOMAIN poll_options \ O |-> poll_options[o]],
       votes |-> [v \in BagToSet(votes) \ V |-> votes[v]]]

\* DELETE FROM votes WHERE poll_id = pid AND user_id = u
DeleteVotesStatement(uid, pid, u) ==
  LET V == { v \in BagToSet(votes) :
               v.poll_id = pid /\ v.user_id = u /\ VotesDeletePolicy(uid, v) }
      lost(o) == IF OptionsUpdatePolicy(uid, o)
                 THEN LET vs == { v \in V : v.option_id = o }
                      IN  IF vs = {} THEN 0 ELSE BagCardinality([v \in vs |-> votes[v]])
                 ELSE 0
  IN  [polls |-> polls,
       poll_options |-> [o \in DOMAIN poll_options |->
                           [poll_options[o] EXCEPT !.votes = @ - lost(o)]],
       votes |-> [v \in BagToSet(votes) \ V |-> votes[v]]]

ApplyTables(d) ==
  /\ polls' = d.polls
  /\ poll_options' = d.poll_options
  /\ votes' = d.votes

\* --------------------------------------------------------------- handlers
DefaultEnv == [throws |-> FALSE, sessionError |-> FALSE, session |-> FALSE,
               userError |-> FALSE, user |-> NoUser]
NoData == [question |-> <<>>, description |-> <<>>, options |-> <<>>]

\* locals of a call; faulted records that a store request of the call failed
\* for a reason outside the schema (network, timeout)
NoOld == [votes |-> {}, total |-> 0, polls |-> <<>>]
NewLoc(op, e) ==
  [op |-> op, env |-> e, pollId |-> NoId, optionId |-> NoId, data |-> NoData,
   existing |-> {}, i |-> 0, faulted |-> FALSE, old |-> NoOld]

\* what a call finds when it starts: the options the caller's votes on the
\* poll reference, and the poll's total vote count as the views show it
\* (submitVote, deletePoll); what getPolls returns (createPoll)
OldOf(pid, u) ==
  [votes |-> { v.option_id : v \in { w \in BagToSet(votes) : w.poll_id = pid /\ w.user_id = u } },
   total |-> IF pid \in DOMAIN polls THEN SumVotes(EmbeddedOptions(pid)) ELSE 0,
   polls |-> <<>>]

Call(t, v, k, ok) == [table |-> t, verb |-> v, key |-> k, ok |-> ok]
\* only the polls page invalidated
Revalidate_PollsOnly == << Call("/polls", "revalidatePath", NoId, TRUE) >>

Revalidate == << Call("/polls", "revalidatePath", NoId, TRUE),
                 Call("/dashboard", "revalidatePath", NoId, TRUE) >>

\* the catch block of each action
\* a catch block that rethrows
Catch_Rethrows(op, msg) == Thrown(msg)

\* a catch block that rethrows what a mutating action threw
Catch_RethrowsMutations(op, msg) ==
  IF op \in {"getPolls", "getUserPolls"} THEN PollList(<<>>) ELSE Thrown(msg)

Catch(op, msg) ==
  IF op \in {"getPolls", "getUserPolls"} THEN PollList(<<>>) ELSE ActionError(msg)

Finish(p, l, r, c) ==
  /\ pc' = [pc EXCEPT ![p] = "returned"]
  /\ loc' = [loc EXCEPT ![p] = l]
  /\ ret' = [ret EXCEPT ![p] = r]
  /\ calls' = [calls EXCEPT ![p] = c]
  /\ UNCHANGED ui

Goto(p, label, l, c) ==
  /\ pc' = [pc EXCEPT ![p] = label]
  /\ loc' = [loc EXCEPT ![p] = l]
  /\ calls' = [calls EXCEPT ![p] = c]
  /\ UNCHANGED <<ret, ui>>

\* no create-poll form is mounted
NoForm == [mounted |-> FALSE, formData |-> NoData, next |-> NoData]

\* no polls list is mounted
NoUI == [initialPolls |-> <<>>, polls |-> <<>>, selected |-> <<>>, log |-> <<>>,
         form |-> NoForm]

Init ==
  /\ polls = <<>>
  /\ poll_options = <<>>
  /\ votes = EmptyBag
  /\ nextPollId = 1
  /\ nextOptionId = 1
  /\ pc = [p \in Procs |-> "idle"]
  /\ loc = [p \in Procs |-> NewLoc("", DefaultEnv)]
  /\ ret = [p \in Procs |-> NoResult]
  /\ calls = [p \in Procs |-> <<>>]
  /\ ui = NoUI

\* the caller takes the returned value; the handler is free for the next request
Ack(p) ==
  /\ pc[p] = "returned"
  /\ pc' = [pc EXCEPT ![p] = "idle"]
  /\ loc' = [loc EXCEPT ![p] = NewLoc("", DefaultEnv)]
  /\ ret' = [ret EXCEPT ![p] = NoResult]
  /\ calls' = [calls EXCEPT ![p] = <<>>]
  /\ UNCHANGED <<db, ui>>

\* ---- createPoll
CreateQuestions == { <<" ">>, <<"q">> }
\* create payloads: no options, or a first option "a" followed by any texts
CreateOptionLists == { <<>> } \cup { << <<"a">> >> \o ts : ts \in SeqsUpTo(Texts, MaxLen - 1) }
CreateInputs ==
  { [question |-> q, description |-> IF q = <<"q">> THEN <<"d">> ELSE <<>>,
     options |-> [k \in 1..Len(ts) |-> [id |-> NoId, text |-> ts[k]]]] :
      q \in CreateQuestions, ts \in CreateOptionLists }

CreatePoll(p, e, data) ==
  /\ pc[p] = "idle"
  /\ nextPollId <= MaxPolls
  /\ nextOptionId + Len(data.options) - 1 <= MaxOptionRows
  /\ \E fault \in BOOLEAN :
       LET l == [NewLoc("createPoll", e) EXCEPT !.data = data,
                                                !.old = [NoOld EXCEPT !.polls = GetPollsResult]]
           auth == getAuthenticatedUserId(e)
           verr == validateCreatePollInput(data)
           row == [question |-> data.question,
                   description |-> DescriptionOrNull(data.description),
                   user_id |-> auth.userId, created_at |-> nextPollId]
       IN  IF e.throws
           THEN ~fault /\ Finish(p, l, Catch("createPoll", ErrClient), <<>>) /\ UNCHANGED db
           ELSE IF ~auth.success
           THEN ~fault /\ Finish(p, l, ActionError(auth.error), <<>>) /\ UNCHANGED db
           ELSE IF verr # ""
           THEN ~fault /\ Finish(p, l, ActionError(verr), <<>>) /\ UNCHANGED db
           ELSE IF fault \/ ~PollsInsertPolicy(AuthUid(e), row)
           THEN /\ Finish(p, [l EXCEPT !.faulted = fault], Catch("createPoll", ErrCreatePoll),
                          << Call("polls", "insert", NoId, FALSE) >>)
                /\ UNCHANGED db
           ELSE /\ polls' = (nextPollId :> row) @@ polls
                /\ nextPollId' = nextPollId + 1
                /\ Goto(p, "cp_options", [l EXCEPT !.pollId = nextPollId],
                        << Call("polls", "insert", nextPollId, TRUE) >>)
                /\ UNCHANGED <<poll_options, votes, nextOptionId>>

\* data.options.map(option => ({ poll_id: poll.id, text: option.text, votes: 0 }))
OptionRows(pollId, data) ==
  [k \in 1..Len(data.options) |->
     [poll_id |-> pollId, text |-> data.options[k].text, votes |-> 0]]

CreatePollOptions(p) ==
  /\ pc[p] = "cp_options"
  /\ nextOptionId + Len(loc[p].data.options) - 1 <= MaxOptionRows
  /\ \E fault \in BOOLEAN :
       LET l == loc[p]
           n == Len(l.data.options)
           rows == OptionRows(l.pollId, l.data)
           ok == /\ ~fault
                 /\ \A k \in 1..n : OptionsInsertPolicy(AuthUid(l.env), rows[k])
       IN  IF ok
           THEN /\ poll_options' = [o \in nextOptionId..(nextOptionId + n - 1) |->
                                      rows[o - nextOptionId + 1]] @@ poll_options
                /\ nextOptionId' = nextOptionId + n
                /\ Finish(p, l, ActionSuccess(l.pollId),
                          calls[p] \o << Call("poll_options", "insert", l.pollId, TRUE) >> \o Revalidate)
                /\ UNCHANGED <<polls, votes, nextPollId>>
           ELSE /\ Goto(p, "cp_cleanup", [l EXCEPT !.faulted = @ \/ fault],
                        calls[p] \o << Call("poll_options", "insert", l.pollId, FALSE) >>)
                /\ UNCHANGED db

\* await supabase.from("polls").delete().eq("id", poll.id); throw ...
\* createPoll throwing the options error without cleaning up
CreatePollCleanup_NoDelete(p) ==
  /\ pc[p] = "cp_cleanup"
  /\ Finish(p, loc[p], Catch("createPoll", ErrCreateOptions), calls[p])
  /\ UNCHANGED db

CreatePollCleanup(p) ==
  /\ pc[p] = "cp_cleanup"
  /\ \E fault \in BOOLEAN :
       LET l == loc[p]
       IN  /\ IF fault THEN UNCHANGED <<polls, poll_options, votes>>
              ELSE ApplyTables(DeletePollStatement(AuthUid(l.env), l.pollId))
           /\ Finish(p, [l EXCEPT !.faulted = @ \/ fault], Catch("createPoll", ErrCreateOptions),
                     calls[p] \o << Call("polls", "delete", l.pollId, ~fault) >>)
           /\ UNCHANGED <<nextPollId, nextOptionId>>

\* ---- getPolls, getUserPolls
GetPolls(p, e) ==
  /\ pc[p] = "idle"
  /\ \E fault \in BOOLEAN :
       LET l == NewLoc("getPolls", e)
       IN  IF e.throws
           THEN ~fault /\ Finish(p, l, Catch("getPolls", ErrClient), <<>>)
           ELSE IF fault
           THEN Finish(p, [l EXCEPT !.faulted = TRUE], PollList(<<>>),
                       << Call("polls", "select", NoId, FALSE) >>)
           ELSE Finish(p, l, PollList(GetPollsResult), << Call("polls", "select", NoId, TRUE) >>)
  /\ UNCHANGED db

GetUserPolls(p, e) ==
  /\ pc[p] = "idle"
  /\ \E fault \in BOOLEAN :
       LET l == NewLoc("getUserPolls", e)
           auth == getAuthenticatedUserId(e)
       IN  IF e.throws
           THEN ~fault /\ Finish(p, l, Catch("getUserPolls", ErrClient), <<>>)
           ELSE IF ~auth.success
           THEN ~fault /\ Finish(p, l, PollList(<<>>), <<>>)
           ELSE IF fault
           THEN Finish(p, [l EXCEPT !.faulted = TRUE], PollList(<<>>),
                       << Call("polls", "select", NoId, FALSE) >>)
           ELSE Finish(p, l, PollList(GetUserPollsResult(auth.userId)),
                       << Call("polls", "select", NoId, TRUE) >>)
  /\ UNCHANGED db

\* ---- deletePoll
\* poll.user_id !== auth.userId (deletePoll)
\* deletePoll without the ownership check
DeleteAuthorized_Anyone(poll, userId) == TRUE

DeleteAuthorized(poll, userId) == poll.user_id = userId

DeletePoll(p, e, pid) ==
  /\ pc[p] = "idle"
  /\ \E fault \in BOOLEAN :
       LET l == [NewLoc("deletePoll", e) EXCEPT !.pollId = pid, !.old = OldOf(pid, e.user)]
           auth == getAuthenticatedUserId(e)
       IN  IF e.throws
           THEN ~fault /\ Finish(p, l, Catch("deletePoll", ErrClient), <<>>)
           ELSE IF ~auth.success
           THEN ~fault /\ Finish(p, l, Catch("deletePoll", auth.error), <<>>)
           ELSE IF fault \/ pid \notin DOMAIN polls
           THEN Finish(p, [l EXCEPT !.faulted = fault], Catch("deletePoll", ErrPollNotFound),
                       << Call("polls", "select", pid, FALSE) >>)
           ELSE IF ~DeleteAuthorized(polls[pid], auth.userId)
           THEN Finish(p, l, Catch("deletePoll", ErrNotAuthDelete),
                       << Call("polls", "select", pid, TRUE) >>)
           ELSE Goto(p, "dp_options", l, << Call("polls", "select", pid, TRUE) >>)
  /\ UNCHANGED db

\* deletePoll going on to the poll row whatever the options delete answered
DeletePollOptions_IgnoresError(p) ==
  /\ pc[p] = "dp_options"
  /\ \E fault \in BOOLEAN :
       LET l == loc[p]
       IN  /\ IF fault THEN UNCHANGED <<polls, poll_options, votes>>
              ELSE ApplyTables(DeleteOptionsStatement(AuthUid(l.env), l.pollId))
           /\ Goto(p, "dp_poll", [l EXCEPT !.faulted = @ \/ fault],
                   calls[p] \o << Call("poll_options", "delete", l.pollId, ~fault) >>)
           /\ UNCHANGED <<nextPollId, nextOptionId>>

DeletePollOptions(p) ==
  /\ pc[p] = "dp_options"
  /\ \E fault \in BOOLEAN :
       LET l == loc[p]
       IN  IF fault
           THEN /\ Finish(p, [l EXCEPT !.faulted = TRUE], Catch("deletePoll", ErrDeleteOptions),
                          calls[p] \o << Call("poll_options", "delete", l.pollId, FALSE) >>)
                /\ UNCHANGED db
           ELSE /\ ApplyTables(DeleteOptionsStatement(AuthUid(l.env), l.pollId))
                /\ Goto(p, "dp_poll", l,
                        calls[p] \o << Call("poll_options", "delete", l.pollId, TRUE) >>)
                /\ UNCHANGED <<nextPollId, nextOptionId>>

DeletePollRow(p) ==
  /\ pc[p] = "dp_poll"
  /\ \E fault \in BOOLEAN :
       LET l == loc[p]
       IN  IF fault
           THEN /\ Finish(p, [l EXCEPT !.faulted = TRUE], Catch("deletePoll", ErrDeletePoll),
                          calls[p] \o << Call("polls", "delete", l.pollId, FALSE) >>)
                /\ UNCHANGED db
           ELSE /\ ApplyTables(DeletePollStatement(AuthUid(l.env), l.pollId))
                /\ Finish(p, l, ActionSuccess(NoId),
                          calls[p] \o << Call("polls", "delete", l.pollId, TRUE) >> \o Revalidate)
                /\ UNCHANGED <<nextPollId, nextOptionId>>

\* ---- updatePoll
\* poll.user_id !== auth.userId (updatePoll)
UpdateAuthorized(poll, userId) == poll.user_id = userId

\* ids an update payload names: none, the first option of the first poll, and
\* the third option row (of the second poll, or added to the first by an update)
UpdateIds == {NoId, 1, 3}
UpdateOptionInputs == [id : UpdateIds, text : UpdateTexts]

\* The option list of an update payload is drawn as the handler reads it:
\* a payload that fails validation is drawn whole when the call starts
\* (validation reads all of it); of a payload that passes, the first option
\* is drawn when the call starts and each further one when the loop reaches
\* it, kept valid by validateUpdatePollInput.
UpdateInputs ==
  { [question |-> <<"r">>, description |-> <<>>, options |-> os] :
      os \in SeqsUpTo(UpdateOptionInputs, 1) \cup SeqsUpTo([id : {NoId}, text : UpdateTexts], MaxLen) }
    \cup { [question |-> <<" ">>, description |-> <<>>, options |-> os] :
             os \in SeqsUpTo([id : {NoId}, text : UpdateTexts], 1) }

UpdateStarts ==
  { d \in UpdateInputs : Len(d.options) <= 1 \/ validateUpdatePollInput(d) # "" }

\* updatePoll validating the payload before it authenticates the caller
UpdatePoll_ValidatesFirst(p, e, pid, data) ==
  /\ pc[p] = "idle"
  /\ \E fault \in BOOLEAN :
       LET l == [NewLoc("updatePoll", e) EXCEPT !.pollId = pid, !.data = data]
           auth == getAuthenticatedUserId(e)
           verr == validateUpdatePollInput(data)
       IN  IF e.throws
           THEN ~fault /\ Finish(p, l, Catch("updatePoll", ErrClient), <<>>)
           ELSE IF verr # ""
           THEN ~fault /\ Finish(p, l, Catch("updatePoll", verr), <<>>)
           ELSE IF ~auth.success
           THEN ~fault /\ Finish(p, l, Catch("updatePoll", auth.error), <<>>)
           ELSE IF fault \/ pid \notin DOMAIN polls
           THEN Finish(p, [l EXCEPT !.faulted = fault], Catch("updatePoll", ErrPollNotFound),
                       << Call("polls", "select", pid, FALSE) >>)
           ELSE IF ~UpdateAuthorized(polls[pid], auth.userId)
           THEN Finish(p, l, Catch("updatePoll", ErrNotAuthUpdate),
                       << Call("polls", "select", pid, TRUE) >>)
           ELSE Goto(p, "up_poll", [l EXCEPT !.existing = OptionsOf(pid)],
                     << Call("polls", "select", pid, TRUE) >>)
  /\ UNCHANGED db

UpdatePoll(p, e, pid, data) ==
  /\ pc[p] = "idle"
  /\ \E fault \in BOOLEAN :
       LET l == [NewLoc("updatePoll", e) EXCEPT !.pollId = pid, !.data = data]
           auth == getAuthenticatedUserId(e)
           verr == validateUpdatePollInput(data)
       IN  IF e.throws
           THEN ~fault /\ Finish(p, l, Catch("updatePoll", ErrClient), <<>>)
           ELSE IF ~auth.success
           THEN ~fault /\ Finish(p, l, Catch("updatePoll", auth.error), <<>>)
           ELSE IF verr # ""
           THEN ~fault /\ Finish(p, l, Catch("updatePoll", verr), <<>>)
           ELSE IF fault \/ pid \notin DOMAIN polls
           THEN Finish(p, [l EXCEPT !.faulted = fault], Catch("updatePoll", ErrPollNotFound),
                       << Call("polls", "select", pid, FALSE) >>)
           ELSE IF ~UpdateAuthorized(polls[pid], auth.userId)
           THEN Finish(p, l, Catch("updatePoll", ErrNotAuthUpdate),
                       << Call("polls", "select", pid, TRUE) >>)
           ELSE Goto(p, "up_poll", [l EXCEPT !.existing = OptionsOf(pid)],
                     << Call("polls", "select", pid, TRUE) >>)
  /\ UNCHANGED db

UpdatePollRow(p) ==
  /\ pc[p] = "up_poll"
  /\ \E fault \in BOOLEAN :
       LET l == loc[p]
           hit == { id \in DOMAIN polls : id = l.pollId /\ PollsUpdatePolicy(AuthUid(l.env), id) }
       IN  IF fault
           THEN /\ Finish(p, [l EXCEPT !.faulted = TRUE], Catch("updatePoll", ErrUpdatePoll),
                          calls[p] \o << Call("polls", "update", l.pollId, FALSE) >>)
                /\ UNCHANGED db
           ELSE /\ polls' = [id \in DOMAIN polls |->
                               IF id \in hit
                               THEN [polls[id] EXCEPT !.question = l.data.question,
                                                      !.description = DescriptionOrNull(l.data.description)]
                               ELSE polls[id]]
                /\ Goto(p, "up_option", [l EXCEPT !.i = 1],
                        calls[p] \o << Call("polls", "update", l.pollId, TRUE) >>)
                /\ UNCHANGED <<poll_options, votes, nextPollId, nextOptionId>>

\* the branch taken on option.id alone, without existingOptionIds.includes
IsExistingOption_AnyId(option, existingOptionIds) ==
  option.id # NoId

\* option.id && existingOptionIds.includes(option.id)
IsExistingOption(option, existingOptionIds) ==
  option.id # NoId /\ option.id \in existingOptionIds

\* .from("poll_options").update({ text: option.text }).eq("id", option.id)
\* the update filtered by .eq("poll_id", pollId) instead of .eq("id", option.id)
UpdateOptionStatement_ByPoll(uid, option, pid) ==
  [o \in DOMAIN poll_options |->
     IF poll_options[o].poll_id = pid /\ OptionsUpdatePolicy(uid, o)
     THEN [poll_options[o] EXCEPT !.text = option.text]
     ELSE poll_options[o]]

UpdateOptionStatement(uid, option, pid) ==
  [o \in DOMAIN poll_options |->
     IF o = option.id /\ OptionsUpdatePolicy(uid, o)
     THEN [poll_options[o] EXCEPT !.text = option.text]
     ELSE poll_options[o]]

\* one iteration of `for (const option of data.options)`; more is the rest
\* of the payload as far as the next iteration reads it
\* the loop going on to the next option when a write fails
UpdatePollOption_KeepsGoing(p, more) ==
  /\ pc[p] = "up_option"
  /\ Len(more) <= 1
  /\ Len(loc[p].data.options) + Len(more) <= MaxLen
  /\ validateUpdatePollInput([loc[p].data EXCEPT !.options = @ \o more]) = ""
  /\ \E fault \in BOOLEAN :
       LET l == loc[p]
           uid == AuthUid(l.env)
           option == l.data.options[l.i]
           update == IsExistingOption(option, l.existing)
           row == [poll_id |-> l.pollId, text |-> option.text, votes |-> 0]
           ok == IF update THEN ~fault ELSE ~fault /\ OptionsInsertPolicy(uid, row)
           c == calls[p] \o << Call("poll_options", IF update THEN "update" ELSE "insert",
                                     IF update THEN option.id ELSE l.pollId, ok) >>
           l2 == [l EXCEPT !.faulted = @ \/ fault]
       IN  /\ update \/ nextOptionId <= MaxOptionRows
           /\ IF ~ok THEN UNCHANGED <<poll_options, nextOptionId>>
              ELSE IF update
              THEN /\ poll_options' = UpdateOptionStatement(uid, option, l.pollId)
                   /\ UNCHANGED nextOptionId
              ELSE /\ poll_options' = (nextOptionId :> row) @@ poll_options
                   /\ nextOptionId' = nextOptionId + 1
           /\ IF l.i = Len(l.data.options) /\ more = <<>>
              THEN Finish(p, l2, ActionSuccess(NoId), c \o Revalidate)
              ELSE /\ l.i < Len(l.data.options) => more = <<>>
                   /\ Goto(p, "up_option",
                           [l2 EXCEPT !.i = @ + 1, !.data.options = @ \o more], c)
           /\ UNCHANGED <<polls, votes, nextPollId>>

UpdatePollOption(p, more) ==
  /\ pc[p] = "up_option"
  /\ Len(more) <= 1
  /\ Len(loc[p].data.options) + Len(more) <= MaxLen
  /\ validateUpdatePollInput([loc[p].data EXCEPT !.options = @ \o more]) = ""
  /\ \E fault \in BOOLEAN :
       LET l == loc[p]
           uid == AuthUid(l.env)
           option == l.data.options[l.i]
           update == IsExistingOption(option, l.existing)
           row == [poll_id |-> l.pollId, text |-> option.text, votes |-> 0]
           ok == IF update THEN ~fault ELSE ~fault /\ OptionsInsertPolicy(uid, row)
           c == calls[p] \o << Call("poll_options", IF update THEN "update" ELSE "insert",
                                     IF update THEN option.id ELSE l.pollId, ok) >>
           l2 == [l EXCEPT !.faulted = @ \/ fault]
       IN  /\ update \/ nextOptionId <= MaxOptionRows
           /\ IF ~ok
              THEN /\ l.i < Len(l.data.options) => more = <<>>
                   /\ Finish(p, [l2 EXCEPT !.data.options = @ \o more],
                             Catch("updatePoll", IF update THEN ErrUpdateOption ELSE ErrAddOption), c)
                   /\ UNCHANGED db
              ELSE /\ IF update
                      THEN /\ poll_options' = UpdateOptionStatement(uid, option, l.pollId)
                           /\ UNCHANGED nextOptionId
                      ELSE /\ poll_options' = (nextOptionId :> row) @@ poll_options
                           /\ nextOptionId' = nextOptionId + 1
                   /\ IF l.i = Len(l.data.options) /\ more = <<>>
                      THEN Finish(p, l, ActionSuccess(NoId), c \o Revalidate)
                      ELSE /\ l.i < Len(l.data.options) => more = <<>>
                           /\ Goto(p, "up_option",
                                   [l EXCEPT !.i = @ + 1, !.data.options = @ \o more], c)
                   /\ UNCHANGED <<polls, votes, nextPollId>>

\* ---- submitVote
\* submitVote without the comparison of the option's poll
OptionOfPoll_Any(optionRow, pollId) == TRUE

\* optionRow.poll_id !== pollId
OptionOfPoll(optionRow, pollId) == optionRow.poll_id = pollId

\* submitVote removing the caller's vote before it looks at the option's poll
SubmitVote_DeletesFirst(p, e, pid, oid) ==
  /\ pc[p] = "idle"
  /\ \E fault \in BOOLEAN :
       LET l == [NewLoc("submitVote", e) EXCEPT !.pollId = pid, !.optionId = oid,
                                                !.old = OldOf(pid, e.user)]
           auth == getAuthenticatedUserId(e)
       IN  IF e.throws
           THEN ~fault /\ Finish(p, l, Catch("submitVote", ErrClient), <<>>) /\ UNCHANGED db
           ELSE IF ~auth.success
           THEN ~fault /\ Finish(p, l, ActionError(auth.error), <<>>) /\ UNCHANGED db
           ELSE IF pid = NoId \/ oid = NoId
           THEN ~fault /\ Finish(p, l, ActionError(ErrRequired), <<>>) /\ UNCHANGED db
           ELSE IF fault \/ oid \notin DOMAIN poll_options
           THEN /\ Finish(p, [l EXCEPT !.faulted = fault], ActionError(ErrOptionNotFound),
                          << Call("poll_options", "select", oid, FALSE) >>)
                /\ UNCHANGED db
           ELSE IF ~OptionOfPoll(poll_options[oid], pid)
           THEN /\ ApplyTables(DeleteVotesStatement(AuthUid(e), pid, e.user))
                /\ Finish(p, l, ActionError(ErrOptionMismatch),
                          << Call("poll_options", "select", oid, TRUE),
                             Call("votes", "delete", pid, TRUE) >>)
                /\ UNCHANGED <<nextPollId, nextOptionId>>
           ELSE /\ Goto(p, "sv_delete", l, << Call("poll_options", "select", oid, TRUE) >>)
                /\ UNCHANGED db

SubmitVote(p, e, pid, oid) ==
  /\ pc[p] = "idle"
  /\ \E fault \in BOOLEAN :
       LET l == [NewLoc("submitVote", e) EXCEPT !.pollId = pid, !.optionId = oid,
                                                !.old = OldOf(pid, e.user)]
           auth == getAuthenticatedUserId(e)
       IN  IF e.throws
           THEN ~fault /\ Finish(p, l, Catch("submitVote", ErrClient), <<>>)
           ELSE IF ~auth.success
           THEN ~fault /\ Finish(p, l, ActionError(auth.error), <<>>)
           ELSE IF pid = NoId \/ oid = NoId
           THEN ~fault /\ Finish(p, l, ActionError(ErrRequired), <<>>)
           ELSE IF fault \/ oid \notin DOMAIN poll_options
           THEN Finish(p, [l EXCEPT !.faulted = fault], ActionError(ErrOptionNotFound),
                       << Call("poll_options", "select", oid, FALSE) >>)
           ELSE IF ~OptionOfPoll(poll_options[oid], pid)
           THEN Finish(p, l, ActionError(ErrOptionMismatch),
                       << Call("poll_options", "select", oid, TRUE) >>)
           ELSE Goto(p, "sv_delete", l, << Call("poll_options", "select", oid, TRUE) >>)
  /\ UNCHANGED db

\* await supabase.from("votes").delete()...: the result is not looked at
SubmitVoteDelete(p) ==
  /\ pc[p] = "sv_delete"
  /\ \E fault \in BOOLEAN :
       LET l == loc[p]
       IN  /\ IF fault THEN UNCHANGED <<polls, poll_options, votes>>
              ELSE ApplyTables(DeleteVotesStatement(AuthUid(l.env), l.pollId, l.env.user))
           /\ Goto(p, "sv_insert", [l EXCEPT !.faulted = @ \/ fault],
                   calls[p] \o << Call("votes", "delete", l.pollId, ~fault) >>)
  /\ UNCHANGED <<nextPollId, nextOptionId>>

SubmitVoteInsert(p) ==
  /\ pc[p] = "sv_insert"
  /\ \E fault \in BOOLEAN :
       LET l == loc[p]
           uid == AuthUid(l.env)
           row == [poll_id |-> l.pollId, option_id |-> l.optionId, user_id |-> l.env.user]
           ok == ~fault /\ VotesInsertAllowed(uid, row)
       IN  IF ok
           THEN /\ votes' = votes (+) SetToBag({row})
                /\ poll_options' = VoteCountAfterInsert(uid, row)
                /\ Finish(p, l, ActionSuccess(NoId),
                          calls[p] \o << Call("votes", "insert", l.pollId, TRUE) >> \o Revalidate)
                /\ UNCHANGED <<polls, nextPollId, nextOptionId>>
           ELSE /\ Finish(p, [l EXCEPT !.faulted = @ \/ fault], ActionError(ErrSubmitVote),
                          calls[p] \o << Call("votes", "insert", l.pollId, FALSE) >>)
                /\ UNCHANGED db

\* ------------------------------------------------------------ next, specs
HealthyEnvs == { e \in Envs : ~e.throws /\ getAuthenticatedUserId(e).success }
DefectEnvs == Envs \ HealthyEnvs
User1Env == CHOOSE e \in HealthyEnvs : e.user = "u1"

ValidCreateInputs == { d \in CreateInputs : validateCreatePollInput(d) = "" }
ValidUpdateStarts == { d \in UpdateStarts : validateUpdatePollInput(d) = "" }
PlainUpdateStarts == { d \in UpdateStarts : Len(d.options) = 1 /\ d.options[1].id = NoId }

\* The requests explored: valid arguments with a healthy session of each
\* user, every argument with the session of u1, and one or two argument
\* tuples with each defect of the session.  updatePoll is explored on the
\* first poll.
CreateCalls ==
  (HealthyEnvs \X ValidCreateInputs) \cup ({User1Env} \X CreateInputs)
    \cup (DefectEnvs \X { d \in CreateInputs : Len(d.options) = 2 /\ d.options[2].text = <<"b">> })

UpdateCalls ==
  (HealthyEnvs \X {1} \X UpdateStarts)
    \cup (DefectEnvs \X {1} \X PlainUpdateStarts)

DeleteCalls == (HealthyEnvs \X (1..MaxPolls)) \cup (DefectEnvs \X {1})

VoteCalls ==
  (HealthyEnvs \X (0..MaxPolls) \X (0..MaxOptionRows)) \cup (DefectEnvs \X {1} \X {1})

ReadEnvs == DefectEnvs \cup {User1Env}

Begin(p) ==
  \/ pc[p] = "idle" /\ \E c \in CreateCalls : CreatePoll(p, c[1], c[2])
  \/ pc[p] = "idle" /\ \E e \in ReadEnvs : GetPolls(p, e)
  \/ pc[p] = "idle" /\ \E e \in Envs : GetUserPolls(p, e)
  \/ pc[p] = "idle" /\ \E c \in DeleteCalls : DeletePoll(p, c[1], c[2])
  \/ pc[p] = "idle" /\ \E c \in UpdateCalls : UpdatePoll(p, c[1], c[2], c[3])
  \/ pc[p] = "idle" /\ \E c \in VoteCalls : SubmitVote(p, c[1], c[2], c[3])

Continue(p) ==
  \/ CreatePollOptions(p)
  \/ CreatePollCleanup(p)
  \/ DeletePollOptions(p)
  \/ DeletePollRow(p)
  \/ UpdatePollRow(p)
  \/ pc[p] = "up_option" /\ \E more \in SeqsUpTo(UpdateOptionInputs, 1) : UpdatePollOption(p, more)
  \/ SubmitVoteDelete(p)
  \/ SubmitVoteInsert(p)
  \/ Ack(p)

Step(p) == Begin(p) \/ Continue(p)

\* one request at a time, served by handler 1
Next == Step(1)

Spec == Init /\ [][Next]_vars

\* Handlers run concurrently, interleaved at their store requests.  The
\* requests are the valid ones of healthy sessions, polls are created by u1,
\* update payloads rename the first option, and no store request fails for a
\* reason outside the schema.  A
\* returned value is taken by its caller before the next store request is
\* served: Ack touches nothing but the handler's own record, so this order
\* loses no interleaving of the store requests.
ConcUpdateStarts == { d \in ValidUpdateStarts : d.options[1].id = 1 }

\* no returned value is waiting for its caller
Ready == \A q \in Procs : pc[q] # "returned"

NoFault == \A p \in Procs : ~loc'[p].faulted

ConcBegin(p) ==
  \/ /\ Ready /\ pc[p] = "idle"
     /\ \E c \in {User1Env} \X ValidCreateInputs : CreatePoll(p, c[1], c[2])
     /\ NoFault
  \/ /\ Ready /\ pc[p] = "idle"
     /\ \E c \in HealthyEnvs \X (1..MaxPolls) : DeletePoll(p, c[1], c[2])
     /\ NoFault
  \/ /\ Ready /\ pc[p] = "idle"
     /\ \E c \in HealthyEnvs \X {1} \X ConcUpdateStarts : UpdatePoll(p, c[1], c[2], c[3])
     /\ NoFault
  \/ /\ Ready /\ pc[p] = "idle"
     /\ \E c \in HealthyEnvs \X (1..MaxPolls) \X (1..MaxOptionRows) :
          SubmitVote(p, c[1], c[2], c[3])
     /\ NoFault

ConcContinue(p) ==
  \/ Ready /\ CreatePollOptions(p) /\ NoFault
  \/ Ready /\ CreatePollCleanup(p) /\ NoFault
  \/ Ready /\ DeletePollOptions(p) /\ NoFault
  \/ Ready /\ DeletePollRow(p) /\ NoFault
  \/ Ready /\ UpdatePollRow(p) /\ NoFault
  \/ Ready /\ UpdatePollOption(p, <<>>) /\ NoFault
  \/ Ready /\ SubmitVoteDelete(p) /\ NoFault
  \/ Ready /\ SubmitVoteInsert(p) /\ NoFault

ConcStep(p) == ConcBegin(p) \/ ConcContinue(p)

ConcNext == \E p \in Procs : Ack(p) \/ ConcStep(p)

ConcSpec == Init /\ [][ConcNext]_vars

\* ---- the pure functions, applied to arguments of their parameter types
\* PollRow values: with the embedded option list, or without it
RowOptions == [id : 1..2, text : { <<"a">>, <<"b">> }, votes : 0..MaxVotes]
BareRows ==
  [id : {1}, question : { <<"q">> }, description : { {}, { <<"d">> } },
   user_id : {"u1"}, created_at : {1}]
MapRows ==
  BareRows \cup { [poll_options |-> os] @@ r : r \in BareRows, os \in SeqsUpTo(RowOptions, MaxRowOptions) }

MapPollRow(p) ==
  /\ pc[p] = "idle"
  /\ \E row \in MapRows :
       Finish(p, [NewLoc("mapPollRowToPoll", DefaultEnv) EXCEPT !.data = row],
              PollList(<< mapPollRowToPoll(row) >>), <<>>)
  /\ UNCHANGED db

\* payloads of the validators: questions and option texts with and without
\* surrounding blanks, in both letter cases
FnQuestions == { <<>>, <<" ">>, <<"q", " ">> }
FnTexts == { <<>>, <<" ">>, <<"a">>, <<"A">>, <<"a", " ">>, <<"b">> }
FnCreateInputs ==
  { [question |-> q, description |-> <<>>,
     options |-> [k \in 1..Len(ts) |-> [id |-> NoId, text |-> ts[k]]]] :
      q \in FnQuestions, ts \in SeqsUpTo(FnTexts, FnMaxLen) }
FnUpdateInputs ==
  { [question |-> q, description |-> <<>>, options |-> os] :
      q \in FnQuestions, os \in SeqsUpTo([id : {NoId, 1}, text : FnTexts \ { <<"A">> }], FnMaxLen) }

\* the validator's answer: a message, or "" for null
ValidatorResult(msg) == [NoResult EXCEPT !.kind = "value", !.error = msg]

ValidateCreatePoll(p) ==
  /\ pc[p] = "idle"
  /\ \E data \in FnCreateInputs :
       Finish(p, [NewLoc("validateCreatePollInput", DefaultEnv) EXCEPT !.data = data],
              ValidatorResult(validateCreatePollInput(data)), <<>>)
  /\ UNCHANGED db

FnNext ==
  \/ MapPollRow(1)
  \/ ValidateCreatePoll(1)
  \/ pc[1] = "idle" /\ \E data \in FnUpdateInputs : UpdatePoll(1, User1Env, 1, data)
  \/ Ack(1)

FnSpec == Init /\ [][FnNext]_vars

\* ---- the polls list component (PollsList) and its cards (PollCard)
\* what the page hands over as initialPolls: view models of two polls with
\* two options each, newest first
UIRow(id, va, vb) ==
  [id |-> id, question |-> <<"q">>, description |-> {}, user_id |-> "u1", created_at |-> id,
   poll_options |-> << [id |-> 2 * id - 1, text |-> <<"a">>, votes |-> va],
                       [id |-> 2 * id, text |-> <<"b">>, votes |-> vb] >>]
UILists ==
  { << mapPollRowToPoll(UIRow(2, v[1], v[2])), mapPollRowToPoll(UIRow(1, v[3], v[4])) >> :
      v \in [1..4 -> 0..1] }

\* useState<Poll[]>(initialPolls); every card starts with selectedOption = null
PollsListMount(initialPolls) ==
  /\ ui = NoUI
  /\ ui' = [initialPolls |-> initialPolls, polls |-> initialPolls,
            selected |-> [k \in 1..Len(initialPolls) |-> NoId], log |-> <<>>,
            form |-> NoForm]
  /\ UNCHANGED <<db, pc, loc, ret, calls>>

\* onChange of a radio button of the k-th card: setSelectedOption(e.target.value)
SelectOption(k, optionId) ==
  /\ k \in 1..Len(ui.polls)
  /\ \E j \in 1..Len(ui.polls[k].options) : ui.polls[k].options[j].id = optionId
  /\ ui' = [ui EXCEPT !.selected[k] = optionId]
  /\ UNCHANGED <<db, pc, loc, ret, calls>>

\* PollsList.handleVote: setPolls(prev => prev.map(...))
handleVote(prev, pollId, optionId) ==
  [k \in 1..Len(prev) |->
     IF prev[k].id = pollId
     THEN [prev[k] EXCEPT
             !.options = [j \in 1..Len(prev[k].options) |->
                            IF prev[k].options[j].id = optionId
                            THEN [prev[k].options[j] EXCEPT !.votes = @ + 1]
                            ELSE prev[k].options[j]],
             !.totalVotes = @ + 1]
     ELSE prev[k]]

\* the Vote button of the k-th card (enabled once an option is selected):
\* PollCard.handleVote calls onVote(selectedOption), which is
\* handleVote(poll.id, optionId) of the list
PollCardVote(k) ==
  /\ k \in 1..Len(ui.polls)
  /\ ui.selected[k] # NoId
  /\ Len(ui.log) < MaxClicks
  /\ ui' = [ui EXCEPT !.polls = handleVote(ui.polls, ui.polls[k].id, ui.selected[k]),
                      !.log = Append(@, << ui.polls[k].id, ui.selected[k] >>)]
  /\ UNCHANGED <<db, pc, loc, ret, calls>>

UINext ==
  \/ \E l \in UILists : PollsListMount(l)
  \/ \E k \in 1..2 : \E o \in 1..4 : SelectOption(k, o)
  \/ \E k \in 1..2 : PollCardVote(k)

UISpec == Init /\ [][UINext]_vars

\* ---- the create-poll form (CreatePollForm)
\* ui.form.formData is the formData of the last render, which the handlers of
\* that render read; ui.form.next is the component's state with every
\* setFormData(prev => ...) queued since then applied in order.  Option ids
\* are the numbers whose toString() the component stores.
InitialFormData ==
  [question |-> <<>>, description |-> <<>>,
   options |-> << [id |-> 1, text |-> <<>>], [id |-> 2, text |-> <<>>] >>]
FormTexts == { <<>>, <<"x">> }
FormIds(data) == { data.options[k].id : k \in 1..Len(data.options) }

SetFormData(next) ==
  /\ ui' = [ui EXCEPT !.form.next = next]
  /\ UNCHANGED <<db, pc, loc, ret, calls>>

CreatePollFormMount ==
  /\ ui = NoUI
  /\ ui' = [ui EXCEPT !.form = [mounted |-> TRUE, formData |-> InitialFormData,
                                 next |-> InitialFormData]]
  /\ UNCHANGED <<db, pc, loc, ret, calls>>

\* React renders the component again with its current state
CreatePollFormRender ==
  /\ ui.form.mounted
  /\ ui.form.formData # ui.form.next
  /\ ui' = [ui EXCEPT !.form.formData = ui.form.next]
  /\ UNCHANGED <<db, pc, loc, ret, calls>>

addOption ==
  /\ ui.form.mounted
  /\ Len(ui.form.next.options) < MaxFormOptions
  /\ LET newId == Len(ui.form.formData.options) + 1
     IN  SetFormData([ui.form.next EXCEPT !.options = Append(@, [id |-> newId, text |-> <<>>])])

\* onClick of the Remove button of a rendered option
removeOption(id) ==
  /\ ui.form.mounted
  /\ id \in FormIds(ui.form.formData)
  /\ Len(ui.form.formData.options) > 2
  /\ SetFormData([ui.form.next EXCEPT
                    !.options = SelectSeq(@, LAMBDA option : option.id # id)])

\* onChange of the input of a rendered option
updateOption(id, text) ==
  /\ ui.form.mounted
  /\ id \in FormIds(ui.form.formData)
  /\ SetFormData([ui.form.next EXCEPT
                    !.options = [k \in 1..Len(@) |->
                                   IF @[k].id = id THEN [@[k] EXCEPT !.text = text] ELSE @[k]]])

FormNext ==
  \/ CreatePollFormMount
  \/ CreatePollFormRender
  \/ addOption
  \/ \E id \in 1..MaxFormOptions : removeOption(id)
  \/ \E id \in 1..MaxFormOptions : \E text \in FormTexts : updateOption(id, text)

FormSpec == Init /\ [][FormNext]_vars

-----------------------------------------------------------------------------
\* Properties.

Mutators == { "createPoll", "updatePoll", "deletePoll", "submitVote" }
Reads == { "getPolls", "getUserPolls" }
Returned(p, op) == pc[p] = "returned" /\ loc[p].op = op
Begins(p, op) == pc[p] = "idle" /\ pc'[p] # "idle" /\ loc'[p].op = op
VoteRows(pid, u) == { v \in BagToSet(votes) : v.poll_id = pid /\ v.user_id = u }
VoteRowCount(pid, u) == BagCardinality([v \in VoteRows(pid, u) |-> votes[v]])
PollIds == 1..(nextPollId - 1)
ViewIds(views) == { views[k].id : k \in 1..Len(views) }

\* C1: in every reachable state of concurrently running createPoll, updatePoll,
\* deletePoll and submitVote calls, the votes table holds at most one row for
\* each (poll, user) pair.
C1_OneVotePerPollUser ==
  \A pid \in PollIds : \A u \in Users : VoteRowCount(pid, u) <= 1

\* a user who has a vote on the poll called submitVote for it again, the call
\* ran to its end, and the user has one vote row on the poll
C1_Witness ==
  \E p \in Procs :
    /\ Returned(p, "submitVote")
    /\ loc[p].old.votes # {}
    /\ Len(calls[p]) >= 3
    /\ VoteRowCount(loc[p].pollId, loc[p].env.user) = 1

\* C2: a submitVote(P, B) by a user whose vote on P references another option A,
\* with B an option of P and no storage failure, succeeds; afterwards the user
\* has exactly one vote row on P, it references B, and the total vote count of
\* P is what it was when the call started.
C2_RevoteReplaces ==
  \A p \in Procs :
    ( /\ Returned(p, "submitVote")
      /\ getAuthenticatedUserId(loc[p].env).success /\ ~loc[p].env.throws
      /\ ~loc[p].faulted
      /\ loc[p].optionId \in DOMAIN poll_options
      /\ poll_options[loc[p].optionId].poll_id = loc[p].pollId
      /\ loc[p].old.votes # {} /\ loc[p].optionId \notin loc[p].old.votes )
    => /\ ret[p].success
       /\ VoteRowCount(loc[p].pollId, loc[p].env.user) = 1
       /\ \A v \in VoteRows(loc[p].pollId, loc[p].env.user) : v.option_id = loc[p].optionId
       /\ SumVotes(EmbeddedOptions(loc[p].pollId)) = loc[p].old.total

\* the session a call runs with has no defect the guard looks for
SessionAndUser(e) == ~e.sessionError /\ e.session /\ ~e.userError /\ e.user # NoUser
Authenticated(e) == ~e.throws /\ SessionAndUser(e)
Writes(c) == { k \in 1..Len(c) : c[k].verb \in {"insert", "update", "delete"} }

\* C3: an updatePoll with a valid payload, or a deletePoll, by an authenticated
\* user who does not own the existing poll returns at once with a failure,
\* 'Not authorized to update this poll' / 'Not authorized to delete this poll'
\* when the ownership lookup itself did not fail, issues no write, and leaves
\* the poll, its options and all votes as they were.
C3_NonOwnerRejected ==
  [][ \A p \in Procs : \A op \in {"updatePoll", "deletePoll"} :
        ( /\ Begins(p, op)
          /\ Authenticated(loc'[p].env)
          /\ op = "updatePoll" => validateUpdatePollInput(loc'[p].data) = ""
          /\ loc'[p].pollId \in DOMAIN polls
          /\ polls[loc'[p].pollId].user_id # loc'[p].env.user )
        => /\ pc'[p] = "returned"
           /\ ret'[p].kind = "action" /\ ~ret'[p].success
           /\ ~loc'[p].faulted =>
                ret'[p].error = (IF op = "updatePoll" THEN ErrNotAuthUpdate ELSE ErrNotAuthDelete)
           /\ Writes(calls'[p]) = {}
           /\ polls' = polls /\ poll_options' = poll_options /\ votes' = votes ]_vars

\* a non-owner's deletePoll of a poll that has options and a vote was refused
C3_Witness ==
  \E p \in Procs :
    /\ Returned(p, "deletePoll")
    /\ ret[p] = ActionError(ErrNotAuthDelete)
    /\ loc[p].pollId \in DOMAIN polls
    /\ polls[loc[p].pollId].user_id # loc[p].env.user
    /\ OptionsOf(loc[p].pollId) # {}
    /\ \E v \in BagToSet(votes) : v.poll_id = loc[p].pollId

\* C4: a mutating action called without a session, with a session error,
\* without a user or with a user error returns { success: false, error: 'User
\* not authenticated' } having issued no store request; a call gets past the
\* guard only with both a session and a user.
C4_Unauthenticated ==
  \A p \in Procs :
    (loc[p].op \in Mutators /\ ~loc[p].env.throws)
    => /\ (pc[p] = "returned" /\ ~SessionAndUser(loc[p].env))
            => (ret[p] = ActionError(ErrUnauth) /\ calls[p] = <<>>)
       /\ (pc[p] \notin {"idle", "returned"} \/ calls[p] # <<>>)
            => SessionAndUser(loc[p].env)

\* a submitVote with a session but no user was refused
C4_Witness ==
  \E p \in Procs :
    /\ Returned(p, "submitVote")
    /\ loc[p].env.session /\ ~loc[p].env.sessionError /\ loc[p].env.user = NoUser
    /\ ret[p] = ActionError(ErrUnauth)
    /\ DOMAIN polls # {}

ValidationErrors == { ErrQuestion, ErrTwoOptions, ErrEmptyText, ErrUnique }
RawTexts(data) == [k \in 1..Len(data.options) |-> data.options[k].text]

InvalidCreate(data) ==
  LET t == RawTexts(data)
  IN  \/ Len(t) < 2
      \/ \E k \in 1..Len(t) : t[k] = <<>>
      \/ \E j, k \in 1..Len(t) : j # k /\ t[j] = t[k]

\* C5: a createPoll by an authenticated user whose payload has fewer than 2
\* options, an empty option text, or two options with the same text never gets
\* as far as a store request: it returns a validation failure having inserted
\* nothing, and getPolls returns what it returned when the call started.
C5_InvalidCreateRejected ==
  \A p \in Procs :
    (loc[p].op = "createPoll" /\ Authenticated(loc[p].env) /\ InvalidCreate(loc[p].data))
    => /\ pc[p] = "returned"
       /\ ret[p].kind = "action" /\ ~ret[p].success
       /\ ret[p].error \in ValidationErrors
       /\ calls[p] = <<>>
       /\ GetPollsResult = loc[p].old.polls

\* a createPoll with a duplicated option text was refused while a poll exists
C5_Witness ==
  \E p \in Procs :
    /\ Returned(p, "createPoll")
    /\ ret[p] = ActionError(ErrUnique)
    /\ \E j, k \in 1..Len(loc[p].data.options) :
         j # k /\ loc[p].data.options[j].text = loc[p].data.options[k].text
    /\ GetPollsResult # <<>>

View(views, id) == views[CHOOSE k \in 1..Len(views) : views[k].id = id]
ViewTexts(view) == [k \in 1..Len(view.options) |-> view.options[k].text]

\* the call created a poll that getUserPolls shows to its creator with the
\* submitted question and exactly the submitted options, each with 0 votes
CreatedAsSubmitted(p) ==
  /\ ret[p].kind = "action" /\ ret[p].success /\ ret[p].pollId # NoId
  /\ LET views == GetUserPollsResult(loc[p].env.user)
     IN  /\ ret[p].pollId \in ViewIds(views)
         /\ LET view == View(views, ret[p].pollId)
            IN  /\ view.question = loc[p].data.question
                /\ ViewTexts(view) = RawTexts(loc[p].data)
                /\ \A k \in 1..Len(view.options) : view.options[k].votes = 0

\* C6 as stated: a payload with a non-empty question and at least 2 non-empty,
\* pairwise distinct option texts, submitted by an authenticated user with no
\* storage failure, creates the poll as submitted.
C6_ValidCreateAsStated ==
  \A p \in Procs :
    ( /\ Returned(p, "createPoll") /\ Authenticated(loc[p].env) /\ ~loc[p].faulted
      /\ Len(loc[p].data.question) > 0
      /\ ~InvalidCreate(loc[p].data) )
    => CreatedAsSubmitted(p)

TrimmedValidCreate(data) ==
  LET t == [k \in 1..Len(data.options) |-> Trim(data.options[k].text)]
  IN  /\ Len(Trim(data.question)) > 0
      /\ Len(t) >= 2
      /\ \A k \in 1..Len(t) : Len(t[k]) > 0
      /\ \A j, k \in 1..Len(t) : j # k => t[j] # t[k]

\* C6: a payload whose question is non-empty after trimming and that has at
\* least 2 options whose texts are non-empty and pairwise distinct after
\* trimming, submitted by an authenticated user with no storage failure,
\* returns success with the new poll's id, and getUserPolls for that user then
\* contains a view with that id, the submitted question and exactly the
\* submitted options, each with votes = 0.
C6_ValidCreate ==
  \A p \in Procs :
    ( /\ Returned(p, "createPoll") /\ Authenticated(loc[p].env) /\ ~loc[p].faulted
      /\ TrimmedValidCreate(loc[p].data) )
    => CreatedAsSubmitted(p)

\* a second poll was created from a valid payload
C6_Witness ==
  \E p \in Procs :
    /\ Returned(p, "createPoll") /\ ~loc[p].faulted
    /\ TrimmedValidCreate(loc[p].data)
    /\ ret[p].success /\ ret[p].pollId = 2
    /\ Len(GetUserPollsResult(loc[p].env.user)) = 2

\* C7: when createPoll's insert into polls succeeded and its insert into
\* poll_options failed, the next and last store request of the call is a
\* delete on polls keyed by the id of the row just created, and the call
\* returns { success: false, error: 'Failed to create poll options' } whether
\* or not that delete succeeded; a delete that succeeded removed the row.
C7_CompensatingDelete ==
  \A p \in Procs :
    ( /\ loc[p].op = "createPoll" /\ Len(calls[p]) >= 2
      /\ calls[p][1].table = "polls" /\ calls[p][1].verb = "insert" /\ calls[p][1].ok
      /\ calls[p][2].table = "poll_options" /\ calls[p][2].verb = "insert" /\ ~calls[p][2].ok )
    => /\ pc[p] \in {"cp_cleanup", "returned"}
       /\ pc[p] = "cp_cleanup" => Len(calls[p]) = 2
       /\ pc[p] = "returned" =>
            /\ Len(calls[p]) = 3
            /\ calls[p][3].table = "polls" /\ calls[p][3].verb = "delete"
            /\ calls[p][3].key = calls[p][1].key /\ calls[p][3].key = loc[p].pollId
            /\ ret[p] = ActionError(ErrCreateOptions)
            /\ calls[p][3].ok => loc[p].pollId \notin DOMAIN polls

\* the options insert failed, the cleanup delete failed too, and the call
\* returned the options error leaving the poll row behind
C7_Witness ==
  \E p \in Procs :
    /\ Returned(p, "createPoll") /\ Len(calls[p]) = 3
    /\ ~calls[p][2].ok /\ ~calls[p][3].ok
    /\ ret[p] = ActionError(ErrCreateOptions)
    /\ loc[p].pollId \in DOMAIN polls

NamedIds(data) == { data.options[k].id : k \in 1..Len(data.options) }

\* C8: no step of an updatePoll(P, data) call, successful or not, removes an
\* option: every option row of P whose id does not appear in data.options is
\* still there after the step with the same text and votes, and P has at least
\* as many options after the step as before it.
C8_UpdateAdditive ==
  [][ \A p \in Procs :
        loc'[p].op = "updatePoll"
        => LET P == loc'[p].pollId
               named == NamedIds(loc'[p].data)
           IN  /\ \A o \in DOMAIN poll_options :
                    (poll_options[o].poll_id = P /\ o \notin named)
                    => (o \in DOMAIN poll_options' /\ poll_options'[o] = poll_options[o])
               /\ Cardinality({ o \in DOMAIN poll_options' : poll_options'[o].poll_id = P })
                    >= Cardinality({ o \in DOMAIN poll_options : poll_options[o].poll_id = P }) ]_vars

\* a successful updatePoll renamed one option of a poll and left another
\* option of the poll, not named in the payload, in place
C8_Witness ==
  \E p \in Procs :
    /\ Returned(p, "updatePoll") /\ ret[p].success
    /\ \E o \in loc[p].existing \cap NamedIds(loc[p].data) : poll_options[o].text = <<"c">>
    /\ \E o \in loc[p].existing \ NamedIds(loc[p].data) :
         o \in DOMAIN poll_options /\ poll_options[o].text # <<"c">>

GonePolls == PollIds \ DOMAIN polls

\* C9: when deletePoll(P) by P's owner has returned success the polls row of P
\* is gone; a poll row that is gone never comes back; and a poll that is gone
\* appears in no getPolls or getUserPolls result and is referenced by no
\* option row and no vote row.
C9_DeleteCascade ==
  /\ [](\A p \in Procs :
          (Returned(p, "deletePoll") /\ ret[p].success) => loc[p].pollId \in GonePolls)
  /\ [](\A id \in GonePolls :
          /\ id \notin ViewIds(GetPollsResult)
          /\ \A u \in Users : id \notin ViewIds(GetUserPollsResult(u))
          /\ \A o \in DOMAIN poll_options : poll_options[o].poll_id # id
          /\ \A v \in BagToSet(votes) : v.poll_id # id)
  /\ [][\A id \in GonePolls : id \notin DOMAIN polls']_vars

\* the owner deleted a poll that had options and counted votes
C9_Witness ==
  \E p \in Procs :
    /\ Returned(p, "deletePoll") /\ ret[p].success
    /\ loc[p].old.total > 0 /\ loc[p].old.votes # {}
    /\ loc[p].pollId \in GonePolls

\* C10: getPolls and getUserPolls always return a list: the empty list when
\* the client throws or the select fails, for getPolls the listing whatever
\* the caller's session is, and for getUserPolls without a session and user
\* the empty list with no store request issued.
C10_ReadsDegrade ==
  \A p \in Procs :
    (pc[p] = "returned" /\ loc[p].op \in Reads)
    => /\ ret[p].kind = "list"
       /\ (loc[p].env.throws \/ loc[p].faulted) => ret[p].polls = <<>>
       /\ (loc[p].op = "getPolls" /\ ~loc[p].env.throws /\ ~loc[p].faulted)
            => ret[p].polls = GetPollsResult
       /\ (loc[p].op = "getUserPolls" /\ ~loc[p].env.throws /\ ~SessionAndUser(loc[p].env))
            => (ret[p].polls = <<>> /\ calls[p] = <<>>)

\* getPolls returned the empty list although a poll exists, because building
\* the client threw
C10_Witness ==
  \E p \in Procs :
    /\ Returned(p, "getPolls") /\ loc[p].env.throws
    /\ ret[p] = PollList(<<>>)
    /\ GetPollsResult # <<>>

\* C11: every createPoll, updatePoll, deletePoll and submitVote call that has
\* returned has returned a result record, { success: true, ... } or
\* { success: false, error: <message> } with a non-empty message; a throwing
\* client, a failed guard, a failed validation and a failed storage step all
\* end this way, none as an exception.
C11_UniformResult ==
  \A p \in Procs :
    (pc[p] = "returned" /\ loc[p].op \in Mutators)
    => /\ ret[p].kind = "action"
       /\ ret[p].success => ret[p].error = ""
       /\ ~ret[p].success => ret[p].error # ""
       /\ (loc[p].env.throws \/ ~SessionAndUser(loc[p].env)) => ~ret[p].success

\* a deletePoll whose delete of the polls row failed returned the failure
\* record of the catch block
C11_Witness ==
  \E p \in Procs :
    /\ Returned(p, "deletePoll") /\ loc[p].faulted
    /\ ret[p] = ActionError(ErrDeletePoll)
    /\ Len(calls[p]) = 3

RECURSIVE VotesUpTo(_, _)
VotesUpTo(options, n) == IF n = 0 THEN 0 ELSE options[n].votes + VotesUpTo(options, n - 1)

\* C12: the view model mapPollRowToPoll makes of a row has options as a list:
\* for a row with an embedded list, the same ids, texts and votes in the same
\* order; for a row without one, the empty list; and totalVotes is the sum of
\* the votes of the options (0 for the empty list).
C12_ViewOfRow ==
  \A p \in Procs :
    Returned(p, "mapPollRowToPoll")
    => LET row == loc[p].data
           view == ret[p].polls[1]
       IN  /\ DOMAIN view.options = 1..Len(view.options)
           /\ "poll_options" \in DOMAIN row =>
                /\ Len(view.options) = Len(row.poll_options)
                /\ \A k \in 1..Len(row.poll_options) :
                     /\ view.options[k].id = row.poll_options[k].id
                     /\ view.options[k].text = row.poll_options[k].text
                     /\ view.options[k].votes = row.poll_options[k].votes
           /\ "poll_options" \notin DOMAIN row =>
                (view.options = <<>> /\ view.totalVotes = 0)
           /\ view.totalVotes = VotesUpTo(view.options, Len(view.options))

\* a row with two options of different vote counts was mapped
C12_Witness ==
  \E p \in Procs :
    /\ Returned(p, "mapPollRowToPoll")
    /\ "poll_options" \in DOMAIN loc[p].data
    /\ Len(loc[p].data.poll_options) = 2
    /\ loc[p].data.poll_options[1].votes = 2 /\ loc[p].data.poll_options[2].votes = 1
    /\ ret[p].polls[1].totalVotes = 3

\* C13: every vote row references an option of the poll it references; a
\* submitVote(P, O) of an authenticated caller whose lookup finds no option O
\* returns 'Option not found', one whose lookup finds O under another poll
\* returns 'Option does not belong to poll', both without a write and with
\* the tables unchanged; the call goes on to its writes only when O exists
\* and is an option of P.
C13_VoteOptionOfPoll ==
  /\ [](\A v \in BagToSet(votes) :
          /\ v.option_id \in DOMAIN poll_options
          /\ poll_options[v.option_id].poll_id = v.poll_id)
  /\ [][ \A p \in Procs :
          ( /\ Begins(p, "submitVote")
            /\ Authenticated(loc'[p].env) /\ ~loc'[p].faulted
            /\ loc'[p].pollId # NoId /\ loc'[p].optionId # NoId )
          => LET P == loc'[p].pollId
                 O == loc'[p].optionId
                 refused(msg) ==
                   /\ pc'[p] = "returned" /\ ret'[p] = ActionError(msg)
                   /\ Writes(calls'[p]) = {}
                   /\ polls' = polls /\ poll_options' = poll_options /\ votes' = votes
             IN  /\ O \notin DOMAIN poll_options => refused(ErrOptionNotFound)
                 /\ (O \in DOMAIN poll_options /\ poll_options[O].poll_id # P)
                      => refused(ErrOptionMismatch)
                 /\ pc'[p] # "returned"
                      => (O \in DOMAIN poll_options /\ poll_options[O].poll_id = P) ]_vars

\* a vote for an option of another poll was refused while votes exist
C13_Witness ==
  \E p \in Procs :
    /\ Returned(p, "submitVote")
    /\ ret[p] = ActionError(ErrOptionMismatch)
    /\ loc[p].optionId \in DOMAIN poll_options
    /\ poll_options[loc[p].optionId].poll_id # loc[p].pollId
    /\ loc[p].pollId \in DOMAIN polls
    /\ votes # EmptyBag

\* C14: a getUserPolls call of authenticated user U whose select did not fail
\* returns one view for each poll whose user_id is U and no other view, each
\* created no later than the one before it.
C14_OwnPollsNewestFirst ==
  \A p \in Procs :
    (Returned(p, "getUserPolls") /\ Authenticated(loc[p].env) /\ ~loc[p].faulted)
    => LET U == loc[p].env.user
           views == ret[p].polls
       IN  /\ ret[p].kind = "list"
           /\ ViewIds(views) = { id \in DOMAIN polls : polls[id].user_id = U }
           /\ \A j, k \in 1..Len(views) : j # k => views[j].id # views[k].id
           /\ \A k \in 1..Len(views) : views[k].user_id = U
           /\ \A j, k \in 1..Len(views) : j < k => views[j].created_at >= views[k].created_at

\* a user listed their one poll while a poll of another user exists
C14_Witness ==
  \E p \in Procs :
    /\ Returned(p, "getUserPolls") /\ Authenticated(loc[p].env) /\ ~loc[p].faulted
    /\ Len(ret[p].polls) = 1
    /\ ret[p].polls[1].user_id = loc[p].env.user
    /\ \E id \in DOMAIN polls : polls[id].user_id # loc[p].env.user

ShownPoll(list, pollId) == list[CHOOSE k \in 1..Len(list) : list[k].id = pollId]
ShownVotes(list, pollId, optionId) ==
  LET os == ShownPoll(list, pollId).options
  IN  os[CHOOSE j \in 1..Len(os) : os[j].id = optionId].votes

\* C15: when the user has voted in the polls list for option A of a poll and
\* then for another option B of the same poll, the poll's displayed total is
\* one more than when the list was mounted and A's displayed count is what it
\* was when the list was mounted.
C15_SecondVoteReplaces ==
  ( /\ Len(ui.log) = 2
    /\ ui.log[1][1] = ui.log[2][1]
    /\ ui.log[1][2] # ui.log[2][2] )
  => LET P == ui.log[1][1]
         A == ui.log[1][2]
     IN  /\ ShownPoll(ui.polls, P).totalVotes = ShownPoll(ui.initialPolls, P).totalVotes + 1
         /\ ShownVotes(ui.polls, P, A) = ShownVotes(ui.initialPolls, P, A)

\* C16: when a user who has a vote on P calls submitVote(P, O), the call
\* passes the guard and the option checks, its delete request succeeds and its
\* insert fails, the call returns 'Failed to submit vote' and the user is left
\* with no vote row on P.
C16_FailedRevoteLeavesNoVote ==
  \A p \in Procs :
    ( /\ Returned(p, "submitVote")
      /\ loc[p].old.votes # {}
      /\ Len(calls[p]) = 3
      /\ calls[p][2].verb = "delete" /\ calls[p][2].ok
      /\ calls[p][3].verb = "insert" /\ ~calls[p][3].ok )
    => /\ ret[p] = ActionError(ErrSubmitVote)
       /\ VoteRowCount(loc[p].pollId, loc[p].env.user) = 0

\* C17: submitVote's delete and insert are two requests, and a concurrent
\* submitVote of the same user on the same poll can write between them.  When a
\* call that found no vote of its user on the poll comes to its insert and
\* finds one, written by the other call meanwhile, its own vote is lost: the
\* insert is rejected, the call returns 'Failed to submit vote', and the votes
\* table stays as the other call left it (no duplicate row is added).
C17_RaceLosesVote ==
  [][ \A q \in Procs :
        ( /\ pc[q] = "sv_insert" /\ pc'[q] = "returned"
          /\ loc[q].old.votes = {}
          /\ \E v \in BagToSet(votes) :
               v.poll_id = loc[q].pollId /\ v.user_id = loc[q].env.user )
        => /\ ret'[q] = ActionError(ErrSubmitVote)
           /\ votes' = votes ]_vars

\* one call has sent its delete and not yet its insert, and the other call of
\* the same user on the same poll, for another option, has just written its
\* vote and returned success
C17_Witness ==
  \E p, q \in Procs :
    /\ p # q
    /\ pc[q] = "sv_insert" /\ loc[q].op = "submitVote" /\ loc[q].old.votes = {}
    /\ Returned(p, "submitVote") /\ ret[p].success /\ loc[p].old.votes = {}
    /\ loc[p].pollId = loc[q].pollId /\ loc[p].env.user = loc[q].env.user
    /\ loc[p].optionId # loc[q].optionId
    /\ VoteRowCount(loc[q].pollId, loc[q].env.user) = 1

TrimmedTexts(data) == [k \in 1..Len(data.options) |-> Trim(data.options[k].text)]
QuestionGiven(data) == Trim(data.question) # <<>>
NoBlankText(data) == \A k \in 1..Len(data.options) : TrimmedTexts(data)[k] # <<>>
DistinctAsSubmitted(data) ==
  \A j, k \in 1..Len(data.options) : j # k => data.options[j].text # data.options[k].text
DistinctTrimmed(data) ==
  \A j, k \in 1..Len(data.options) : j # k => TrimmedTexts(data)[j] # TrimmedTexts(data)[k]

\* the message of the first violated rule, "" when none is violated
FirstViolated(data, distinct) ==
  IF ~QuestionGiven(data) THEN ErrQuestion
  ELSE IF Len(data.options) < 2 THEN ErrTwoOptions
  ELSE IF ~NoBlankText(data) THEN ErrEmptyText
  ELSE IF ~distinct THEN ErrUnique
  ELSE ""

\* C18 as stated: the create validator accepts exactly the payloads with a
\* question that is non-empty after trimming, at least 2 options, no option
\* text empty after trimming and no two option texts that are the same string
\* as submitted, and otherwise answers with the first violated rule.
C18_CreateValidatorAsStated ==
  \A p \in Procs :
    Returned(p, "validateCreatePollInput")
    => ret[p].error = FirstViolated(loc[p].data, DistinctAsSubmitted(loc[p].data))

\* C18: the create validator accepts exactly the payloads with a question that
\* is non-empty after trimming, at least 2 options, no option text empty after
\* trimming and no two option texts that are the same string after trimming
\* (letter case kept); otherwise it answers with the message of the first
\* violated rule in the order question, option count, empty text, uniqueness.
C18_CreateValidator ==
  \A p \in Procs :
    Returned(p, "validateCreatePollInput")
    => ret[p].error = FirstViolated(loc[p].data, DistinctTrimmed(loc[p].data))

\* "a", "A" and "a " were submitted together and refused as not unique
C18_Witness ==
  \E p \in Procs :
    /\ Returned(p, "validateCreatePollInput")
    /\ Len(loc[p].data.options) = 3
    /\ loc[p].data.options[1].text = <<"a">>
    /\ loc[p].data.options[2].text = <<"A">>
    /\ loc[p].data.options[3].text = <<"a", " ">>
    /\ QuestionGiven(loc[p].data)
    /\ ret[p].error = ErrUnique

\* the message updatePoll's validation should give, "" when it should accept
UpdateVerdict(data) ==
  IF ~QuestionGiven(data) THEN ErrQuestion
  ELSE IF Len(data.options) < 1 THEN ErrOneOption
  ELSE IF ~NoBlankText(data) THEN ErrEmptyText
  ELSE ""

\* C19: an updatePoll call of an authenticated user goes on to its first store
\* request exactly when the payload's question is non-empty after trimming, it
\* has at least 1 option and no option text is empty after trimming; single
\* options and repeated texts are accepted; a refused payload returns the
\* validator's message with no store request issued.
C19_UpdateValidator ==
  \A p \in Procs :
    (Returned(p, "updatePoll") /\ Authenticated(loc[p].env))
    => LET verdict == UpdateVerdict(loc[p].data)
       IN  /\ verdict # "" => (ret[p] = ActionError(verdict) /\ calls[p] = <<>>)
           /\ verdict = "" =>
                /\ Len(calls[p]) >= 1
                /\ calls[p][1].table = "polls" /\ calls[p][1].verb = "select"
                /\ ret[p].error \notin { ErrQuestion, ErrOneOption, ErrEmptyText,
                                          ErrTwoOptions, ErrUnique }

\* a payload with the same option text twice reached the select on polls
C19_Witness ==
  \E p \in Procs :
    /\ Returned(p, "updatePoll")
    /\ Len(loc[p].data.options) = 2
    /\ loc[p].data.options[1].text = loc[p].data.options[2].text
    /\ Len(calls[p]) = 1 /\ calls[p][1].verb = "select"

\* the step of p issued a request on poll_options that the store carried out
OptionRequestDone(p) ==
  /\ pc[p] = "up_option" /\ loc[p].op = "updatePoll"
  /\ Len(calls'[p]) > Len(calls[p])
  /\ calls'[p][Len(calls[p]) + 1].table = "poll_options"
  /\ calls'[p][Len(calls[p]) + 1].ok

\* C20: for each option updatePoll(P, data) of P's owner submits to the store:
\* when its id is one of the ids P's options had at the fetch, the row of that
\* id gets the option's text, keeps its votes, and no other row changes and
\* none is added; otherwise (no id, or an id that is not an option of P, an
\* option of another poll included) one row for P with the option's text and
\* votes 0 is added and every existing row stays as it was.
C20_UpdateOrInsert ==
  [][ \A p \in Procs :
        OptionRequestDone(p)
        => LET l == loc[p]
               option == l.data.options[l.i]
           IN  IF option.id # NoId /\ option.id \in l.existing
               THEN /\ DOMAIN poll_options' = DOMAIN poll_options
                    /\ \A o \in DOMAIN poll_options \ {option.id} :
                         poll_options'[o] = poll_options[o]
                    /\ option.id \in DOMAIN poll_options
                    /\ poll_options'[option.id].text = option.text
                    /\ poll_options'[option.id].votes = poll_options[option.id].votes
                    /\ poll_options'[option.id].poll_id = l.pollId
               ELSE /\ \A o \in DOMAIN poll_options :
                         o \in DOMAIN poll_options' /\ poll_options'[o] = poll_options[o]
                    /\ \E n \in DOMAIN poll_options' \ DOMAIN poll_options :
                         /\ DOMAIN poll_options' = DOMAIN poll_options \cup {n}
                         /\ poll_options'[n].poll_id = l.pollId
                         /\ poll_options'[n].text = option.text
                         /\ poll_options'[n].votes = 0 ]_vars

\* a successful updatePoll(P, data) named an option of another poll: that row
\* kept its text and P got a new row with the submitted text and votes 0
C20_Witness ==
  \E p \in Procs :
    /\ Returned(p, "updatePoll") /\ ret[p].success
    /\ \E k \in 1..Len(loc[p].data.options) :
         LET option == loc[p].data.options[k]
         IN  /\ option.id # NoId /\ option.id \notin loc[p].existing
             /\ option.id \in DOMAIN poll_options
             /\ poll_options[option.id].poll_id # loc[p].pollId
             /\ poll_options[option.id].text # option.text
             /\ \E n \in DOMAIN poll_options \ loc[p].existing :
                  /\ poll_options[n].poll_id = loc[p].pollId
                  /\ poll_options[n].text = option.text
                  /\ poll_options[n].votes = 0

\* the requests on poll_options a call has issued so far
OptionRequests(p) == SelectSeq(calls[p], LAMBDA c : c.table = "poll_options")

\* options 1..n of the payload that were new to the poll when the call began
AddedBefore(p, n) ==
  { j \in 1..n : ~ (loc[p].data.options[j].id # NoId
                     /\ loc[p].data.options[j].id \in loc[p].existing) }

\* C21: when the write for the k-th option of an updatePoll payload fails, the
\* failed request is the last request of the call, the call has returned
\* 'Failed to update poll option' for an update and 'Failed to add poll option'
\* for an insert, and what was written before stays: the poll row carries the
\* submitted question, every earlier option with an id of the poll carries its
\* submitted text, and the poll has one new row per earlier option without one.
C21_OptionFailureAborts ==
  \A p \in Procs :
    \A n \in 1..Len(calls[p]) :
      (loc[p].op = "updatePoll" /\ calls[p][n].table = "poll_options" /\ ~calls[p][n].ok)
      => LET l == loc[p]
             k == Len(OptionRequests(p))
         IN  /\ n = Len(calls[p])
             /\ pc[p] = "returned"
             /\ ret[p] = ActionError(IF calls[p][n].verb = "update"
                                     THEN "Failed to update poll option"
                                     ELSE "Failed to add poll option")
             /\ k = l.i /\ k <= Len(l.data.options)
             /\ l.pollId \in DOMAIN polls => polls[l.pollId].question = l.data.question
             /\ \A j \in (1..(k - 1)) \ AddedBefore(p, k - 1) :
                  l.data.options[j].id \in DOMAIN poll_options
                  => poll_options[l.data.options[j].id].text = l.data.options[j].text
             /\ l.pollId \in DOMAIN polls
                => Cardinality(OptionsOf(l.pollId) \ l.existing)
                     = Cardinality(AddedBefore(p, k - 1))

\* the insert for the second option failed: the row added for the first
\* option and the new question are in place
C21_Witness ==
  \E p \in Procs :
    /\ Returned(p, "updatePoll")
    /\ ret[p] = ActionError("Failed to add poll option")
    /\ loc[p].i = 2 /\ Len(loc[p].data.options) = 2
    /\ polls[loc[p].pollId].question = loc[p].data.question
    /\ Cardinality(OptionsOf(loc[p].pollId) \ loc[p].existing) = 1

\* positions in the request log of p of the requests (table, verb)
RequestsAt(p, table, verb) ==
  { n \in 1..Len(calls[p]) : calls[p][n].table = table /\ calls[p][n].verb = verb }

C23_RevalidateOnSuccess ==
  \A p \in Procs :
    loc[p].op \in Mutators
    => LET R == { n \in 1..Len(calls[p]) : calls[p][n].verb = "revalidatePath" }
           n == Len(calls[p])
       IN  IF pc[p] = "returned" /\ ret[p].kind = "action" /\ ret[p].success
           THEN /\ n >= 3
                /\ R = {n - 1, n}
                /\ {calls[p][n - 1].table, calls[p][n].table} = {"/polls", "/dashboard"}
                /\ calls[p][n - 2].verb \in {"insert", "update", "delete"}
                /\ calls[p][n - 2].ok
           ELSE R = {}

\* a successful submitVote whose log ends with the two invalidations, and a
\* vote row of the caller in the store
C23_Witness ==
  \E p \in Procs :
    /\ Returned(p, "submitVote") /\ ret[p].success
    /\ Len(calls[p]) = 5
    /\ calls[p][4].table = "/polls" /\ calls[p][5].table = "/dashboard"
    /\ \E v \in BagToSet(votes) : v.user_id = loc[p].env.user /\ v.poll_id = loc[p].pollId

\* C24: once a createPoll call has returned, with success or with an error,
\* the poll row the call inserted, if the store still holds it, has at least
\* 2 option rows.
C24_CreatedWithTwoOptions ==
  \A p \in Procs :
    (Returned(p, "createPoll") /\ loc[p].pollId \in DOMAIN polls)
    => Cardinality(OptionsOf(loc[p].pollId)) >= 2

\* the vote rows that reference option o
VotesFor(o) == { v \in BagToSet(votes) : v.option_id = o }
VoteRowsFor(o) == IF VotesFor(o) = {} THEN 0 ELSE BagCardinality([v \in VotesFor(o) |-> votes[v]])

\* C25: in every reachable state the votes counter of each option row equals
\* the number of vote rows that reference the option, and is not negative.
C25_CounterIsRowCount ==
  \A o \in DOMAIN poll_options :
    poll_options[o].votes = VoteRowsFor(o) /\ poll_options[o].votes >= 0

\* C26: the options list of a mounted create-poll form, as rendered and as
\* held in the component's state, always has at least 2 options.
C26_FormKeepsTwoOptions ==
  ui.form.mounted
  => Len(ui.form.formData.options) >= 2 /\ Len(ui.form.next.options) >= 2

\* C27: the option ids of a mounted create-poll form are pairwise distinct.
C27_FormIdsDistinct ==
  ui.form.mounted
  => \A j, k \in 1..Len(ui.form.next.options) :
       j # k => ui.form.next.options[j].id # ui.form.next.options[k].id

\* C28: a submitVote(P2, O) by an authenticated user who has a vote row on
\* another poll and none on P2, with O an option of P2 and no storage failure,
\* returns success and the user's vote on P2 is in the store.
C28_VoteOnSecondPoll ==
  \A p \in Procs :
    ( /\ Returned(p, "submitVote")
      /\ Authenticated(loc[p].env) /\ ~loc[p].faulted
      /\ loc[p].optionId \in DOMAIN poll_options
      /\ poll_options[loc[p].optionId].poll_id = loc[p].pollId
      /\ loc[p].old.votes = {}
      /\ \E v \in BagToSet(votes) :
           v.user_id = loc[p].env.user /\ v.poll_id # loc[p].pollId )
    => /\ ret[p].success
       /\ VoteRowCount(loc[p].pollId, loc[p].env.user) = 1

\* the error the checks of updatePoll and deletePoll give a returned call p,
\* taken in the order authentication, payload (updatePoll), existence,
\* ownership; "" when every check passes
FirstFailedCheck(p) ==
  LET l == loc[p]
  IN  IF ~SessionAndUser(l.env) THEN "User not authenticated"
      ELSE IF l.op = "updatePoll" /\ UpdateVerdict(l.data) # "" THEN UpdateVerdict(l.data)
      ELSE IF ~calls[p][1].ok THEN "Poll not found"
      ELSE IF l.pollId \in DOMAIN polls /\ polls[l.pollId].user_id # l.env.user
      THEN IF l.op = "updatePoll" THEN "Not authorized to update this poll"
                                  ELSE "Not authorized to delete this poll"
      ELSE ""

\* C29: a returned updatePoll or deletePoll call whose client was created
\* carries the error of the first failing check in the order authentication,
\* payload validation (updatePoll), poll existence, ownership: a failed
\* authentication or validation with no store request at all, 'Poll not
\* found' and a refused ownership with the select as the only request and no
\* write; when no check fails the error is none of these.
C29_CheckOrder ==
  \A p \in Procs :
    ((Returned(p, "updatePoll") \/ Returned(p, "deletePoll")) /\ ~loc[p].env.throws)
    => LET failed == FirstFailedCheck(p)
           early == ~SessionAndUser(loc[p].env)
                      \/ (loc[p].op = "updatePoll" /\ UpdateVerdict(loc[p].data) # "")
       IN  /\ failed # "" => ret[p] = ActionError(failed)
           /\ early => calls[p] = <<>>
           /\ (failed # "" /\ ~early)
                => (Len(calls[p]) = 1 /\ calls[p][1].verb = "select" /\ Writes(calls[p]) = {})
           /\ failed = ""
                => ret[p].error \notin
                     { "User not authenticated", "Poll not found",
                       "Not authorized to update this poll",
                       "Not authorized to delete this poll",
                       ErrQuestion, ErrOneOption, ErrEmptyText }

\* an unauthenticated updatePoll with an invalid payload was told 'User not
\* authenticated'
C29_Witness ==
  \E p \in Procs :
    /\ Returned(p, "updatePoll") /\ ~loc[p].env.throws
    /\ ~SessionAndUser(loc[p].env)
    /\ UpdateVerdict(loc[p].data) # ""
    /\ ret[p] = ActionError("User not authenticated")

\* the errors submitVote returns before its delete
EarlyVoteErrors ==
  { "User not authenticated", "Poll and option are required",
    "Option not found", "Option does not belong to poll" }

\* C30: a submitVote call that returns 'User not authenticated', 'Poll and
\* option are required', 'Option not found' or 'Option does not belong to
\* poll' has issued no request on the votes table and no write at all, it
\* returns in the step it began with, and that step leaves the votes table as
\* it was.
C30_EarlyErrorsKeepVotes ==
  /\ [](\A p \in Procs :
          (Returned(p, "submitVote") /\ ret[p].error \in EarlyVoteErrors)
          => /\ ~ret[p].success
             /\ Writes(calls[p]) = {}
             /\ \A n \in 1..Len(calls[p]) : calls[p][n].table # "votes"
             /\ VoteRows(loc[p].pollId, loc[p].env.user)
                  = { v \in BagToSet(votes) : v.poll_id = loc[p].pollId
                                               /\ v.user_id = loc[p].env.user
                                               /\ v.option_id \in loc[p].old.votes })
  /\ [][ \A p \in Procs :
          (pc[p] # "returned" /\ pc'[p] = "returned" /\ loc'[p].op = "submitVote"
             /\ ret'[p].error \in EarlyVoteErrors)
          => (pc[p] = "idle" /\ votes' = votes /\ poll_options' = poll_options) ]_vars

\* a user with a vote on a poll named an option of another poll, was told so,
\* and the vote is still there
C30_Witness ==
  \E p \in Procs :
    /\ Returned(p, "submitVote")
    /\ ret[p] = ActionError("Option does not belong to poll")
    /\ loc[p].old.votes # {}
    /\ VoteRowCount(loc[p].pollId, loc[p].env.user) = 1

=============================================================================
